---- MODULE Spec2Model ----
(***************************************************************************)
(* A model of tools_dlc_to_surge.py: the line parser, the include resolver *)
(* with its cycle check and cache, the regexp translator, the output       *)
(* validator and the build loop that writes the rule-set files.            *)
(*                                                                         *)
(* A Python str is modelled as a sequence of one-character strings, so     *)
(* that stripping, splitting, prefix tests and the regular expressions are *)
(* computed character by character.                                        *)
(***************************************************************************)
EXTENDS Integers, Sequences, FiniteSets, TLC

VARIABLES
    USE_WILDCARD,     \* module flag, line 10
    ALLOW_COMMENTS,   \* module flag, line 11
    fs,               \* DATA_DIR: name -> [kind, lines]
    pc,               \* position of the running program
    files,            \* build_all: the sorted file names
    fi,               \* build_all: index of the current name in files
    stack,            \* resolve_list: the shared stack list
    cache,            \* resolve_list: the shared cache dict
    frames,           \* the active resolve_list calls: [name, i, out]
    rules,            \* build_all: the sequence the top-level call returned
    outputs,          \* OUT_DIR: file name -> lines written
    total,            \* build_all: total
    total_dropped,    \* build_all: total_dropped
    resolved,         \* history: name -> sequence returned by its top-level call
    reads,            \* history: name -> number of times its file was opened
    stored,           \* history: every <<name, sequence>> put in a cache
    arg,              \* input of the pure function under check
    ret               \* its result

vars == <<USE_WILDCARD, ALLOW_COMMENTS, fs, pc, files, fi, stack, cache, frames,
          rules, outputs, total, total_dropped, resolved, reads, stored, arg, ret>>

-----------------------------------------------------------------------------
(* Characters *)

Lower == {"a", "b", "c", "d", "e", "f", "g", "h", "i", "j", "k", "l", "m",
          "n", "o", "p", "q", "r", "s", "t", "u", "v", "w", "x", "y", "z"}
Upper == {"A", "B", "C", "D", "E", "F", "G", "H", "I", "J", "K", "L", "M",
          "N", "O", "P", "Q", "R", "S", "T", "U", "V", "W", "X", "Y", "Z"}
Digit == {"0", "1", "2", "3", "4", "5", "6", "7", "8", "9"}
AlNum == Lower \cup Upper \cup Digit

\* what str.strip(), str.split() and \s take for white space
Whitespace == {" ", "\t", "\n", "\r"}

\* U+FEFF, one character
BOM == "BOM"

None == [kind |-> "none"]

-----------------------------------------------------------------------------
(* str methods *)

SetMin(S) == CHOOSE x \in S : \A y \in S : x <= y

\* s.strip(): from the first to the last character that is not white space
Strip(s) ==
    IF \A i \in 1..Len(s) : s[i] \in Whitespace THEN <<>>
    ELSE LET first == CHOOSE i \in 1..Len(s) :
                         s[i] \notin Whitespace /\ \A j \in 1..(i - 1) : s[j] \in Whitespace
             last == CHOOSE i \in 1..Len(s) :
                         s[i] \notin Whitespace /\ \A j \in (i + 1)..Len(s) : s[j] \in Whitespace
         IN  SubSeq(s, first, last)

\* s.find(c): the 0-based index of the first c, -1 when there is none
Find(s, c) ==
    LET at == {i \in 1..Len(s) : s[i] = c}
    IN  IF at = {} THEN -1 ELSE SetMin(at) - 1

\* s.startswith(p)
StartsWith(s, p) == Len(s) >= Len(p) /\ SubSeq(s, 1, Len(p)) = p

\* s.endswith(p)
EndsWith(s, p) == Len(s) >= Len(p) /\ SubSeq(s, Len(s) - Len(p) + 1, Len(s)) = p

\* s.split(): the maximal runs of non-white-space characters
RECURSIVE Split(_)
Split(s) ==
    LET keep == {i \in 1..Len(s) : s[i] \notin Whitespace}
    IN  IF keep = {} THEN <<>>
        ELSE LET b == SetMin(keep)
                 ws == {i \in b..Len(s) : s[i] \in Whitespace}
                 e == IF ws = {} THEN Len(s) + 1 ELSE SetMin(ws)
             IN  <<SubSeq(s, b, e - 1)>> \o Split(SubSeq(s, e, Len(s)))

\* sep.join(parts)
RECURSIVE Join(_, _)
Join(sep, parts) ==
    IF parts = <<>> THEN <<>>
    ELSE IF Len(parts) = 1 THEN parts[1]
    ELSE parts[1] \o sep \o Join(sep, Tail(parts))

\* s.replace(old, new), old not empty: left to right, not overlapping
RECURSIVE Replace(_, _, _)
Replace(s, old, new) ==
    IF s = <<>> THEN <<>>
    ELSE IF StartsWith(s, old)
         THEN new \o Replace(SubSeq(s, Len(old) + 1, Len(s)), old, new)
         ELSE <<s[1]>> \o Replace(Tail(s), old, new)

\* every character of s is in the class, and there is at least one
OneOrMore(s, class) == s # <<>> /\ \A i \in 1..Len(s) : s[i] \in class

-----------------------------------------------------------------------------
(* The line parser *)

Rule(kind, value, attrs) == [kind |-> kind, value |-> value, attrs |-> attrs]

strip_inline_comment(s) ==
    LET i == Find(s, "#")
    IN  Strip(IF i < 0 THEN s ELSE SubSeq(s, 1, i))

IncludePrefix == <<"i", "n", "c", "l", "u", "d", "e", ":">>

\* [A-Za-z0-9_.\-]
IncludeNameChars == AlNum \cup {"_", ".", "-"}

\* include_re.match(line): [ok, name].  $ also matches before one final
\* newline, which the class excludes.
include_re(line) ==
    LET l == IF line # <<>> /\ line[Len(line)] = "\n"
             THEN SubSeq(line, 1, Len(line) - 1) ELSE line
        name == SubSeq(l, Len(IncludePrefix) + 1, Len(l))
    IN  IF StartsWith(l, IncludePrefix) /\ OneOrMore(name, IncludeNameChars)
        THEN [ok |-> TRUE, name |-> name]
        ELSE [ok |-> FALSE, name |-> <<>>]

Prefixes ==
    <<  <<"d", "o", "m", "a", "i", "n">>,
        <<"f", "u", "l", "l">>,
        <<"k", "e", "y", "w", "o", "r", "d">>,
        <<"r", "e", "g", "e", "x", "p">>  >>

PrefixKind == <<"domain", "full", "keyword", "regexp">>

\* prefixed_re.match(line): [ok, prefix, body].  The dot takes anything but
\* a newline; $ also matches before one final newline.
prefixed_re(line) ==
    LET hit == {k \in 1..Len(Prefixes) : StartsWith(line, Prefixes[k] \o <<":">>)}
    IN  IF hit = {} THEN [ok |-> FALSE, prefix |-> "", body |-> <<>>]
        ELSE LET k == CHOOSE k \in hit : TRUE
                 body == SubSeq(line, Len(Prefixes[k]) + 2, Len(line))
                 nl == Find(body, "\n")
             IN  IF body # <<>> /\ nl # 0 /\ (nl < 0 \/ nl = Len(body) - 1)
                 THEN [ok |-> TRUE, prefix |-> PrefixKind[k],
                       body |-> IF nl < 0 THEN body ELSE SubSeq(body, 1, nl)]
                 ELSE [ok |-> FALSE, prefix |-> "", body |-> <<>>]

\* parse_attrs with the test len(t) > 1 left out: a lone @ is a tag
parse_attrs_LoneAt(tokens) ==
    LET isTag(t) == t # <<>> /\ t[1] = "@"
    IN  [rest  |-> SelectSeq(tokens, LAMBDA t : ~isTag(t) /\ t # <<>>),
         attrs |-> {Tail(tokens[i]) : i \in {j \in 1..Len(tokens) : isTag(tokens[j])}}]

\* parse_attrs(tokens): [rest, attrs]
parse_attrs(tokens) ==
    LET isTag(t) == t # <<>> /\ t[1] = "@" /\ Len(t) > 1
    IN  [rest  |-> SelectSeq(tokens, LAMBDA t : ~isTag(t) /\ t # <<>>),
         attrs |-> {Tail(tokens[i]) : i \in {j \in 1..Len(tokens) : isTag(tokens[j])}}]

\* parse_line(line): None, [kind |-> "include", name] or a Rule
parse_line(raw) ==
    LET line == strip_inline_comment(Replace(raw, <<BOM>>, <<>>))
        m_inc == include_re(line)
        m_pref == prefixed_re(line)
    IN  IF line = <<>> THEN None
        ELSE IF m_inc.ok THEN [kind |-> "include", name |-> m_inc.name]
        ELSE IF m_pref.ok
             THEN LET pa == parse_attrs(Split(Strip(m_pref.body)))
                  IN  IF pa.rest = <<>> THEN None
                      ELSE Rule(m_pref.prefix, Join(<<" ">>, pa.rest), pa.attrs)
        ELSE LET pa == parse_attrs(Split(line))
             IN  IF pa.rest = <<>> THEN None
                 ELSE Rule("domain", Join(<<" ">>, pa.rest), pa.attrs)

-----------------------------------------------------------------------------
(* The pattern translator, the rule renderer and the validator *)

\* VAL_DOMAIN: [A-Za-z0-9.-]
ValDomainChars == AlNum \cup {".", "-"}

\* [A-Za-z0-9\\\.\-] of the two shapes of regexp_to_surge
ShapeChars == AlNum \cup {"\\", ".", "-"}

\* ^(.+\.)?
OptSubdomain == <<"^", "(", ".", "+", "\\", ".", ")", "?">>

S_DOMAIN == <<"D", "O", "M", "A", "I", "N", ",">>
S_SUFFIX == <<"D", "O", "M", "A", "I", "N", "-", "S", "U", "F", "F", "I", "X", ",">>
S_KEYWORD == <<"D", "O", "M", "A", "I", "N", "-", "K", "E", "Y", "W", "O", "R", "D", ",">>
S_REGEX == <<"U", "R", "L", "-", "R", "E", "G", "E", "X", ",">>
S_WILDCARD == <<"D", "O", "M", "A", "I", "N", "-", "W", "I", "L", "D", "C", "A", "R", "D", ",">>
S_SCHEME == <<"^", "h", "t", "t", "p", "s", "?", ":", "/", "/">>
S_PORTPATH == <<"(", "?", ":", ":", "\\", "d", "+", ")", "?", "(", "?", ":", "/", "|", "$", ")">>

\* ^PREFIX,VALUE$ with VALUE one or more characters of the class; $ also
\* matches before one final newline
MatchPrefixClass(s, prefix, class) ==
    LET l == IF s # <<>> /\ s[Len(s)] = "\n" /\ "\n" \notin class
             THEN SubSeq(s, 1, Len(s) - 1) ELSE s
    IN  StartsWith(l, prefix) /\ OneOrMore(SubSeq(l, Len(prefix) + 1, Len(l)), class)

\* ^URL-REGEX,.+$ : the dot takes anything but a newline; $ also matches
\* before one final newline
MatchUrlRegex(s) ==
    /\ StartsWith(s, S_REGEX)
    /\ LET body == SubSeq(s, Len(S_REGEX) + 1, Len(s))
           nl == Find(body, "\n")
       IN  body # <<>> /\ nl # 0 /\ (nl < 0 \/ nl = Len(body) - 1)

\* ^DOMAIN-KEYWORD,[^,\s]+$
MatchKeyword(s) ==
    /\ StartsWith(s, S_KEYWORD)
    /\ LET l == IF s[Len(s)] = "\n" THEN SubSeq(s, 1, Len(s) - 1) ELSE s
           body == SubSeq(l, Len(S_KEYWORD) + 1, Len(l))
       IN  body # <<>> /\ \A i \in 1..Len(body) : body[i] \notin Whitespace \cup {","}

\* valid_line with [^\s]+ for the keyword: a comma passes
valid_line_KeywordComma(s) ==
    \/ MatchPrefixClass(s, S_DOMAIN, ValDomainChars)
    \/ MatchPrefixClass(s, S_SUFFIX, ValDomainChars)
    \/ StartsWith(s, S_KEYWORD) /\ Len(s) > Len(S_KEYWORD)
          /\ \A i \in 1..Len(s) : s[i] \notin Whitespace
    \/ MatchUrlRegex(s)
    \/ USE_WILDCARD /\ MatchPrefixClass(s, S_WILDCARD \o <<"*", ".">>, ValDomainChars)

\* valid_line(s): some pattern of STRICT_PATTERNS matches
valid_line(s) ==
    \/ MatchPrefixClass(s, S_DOMAIN, ValDomainChars)
    \/ MatchPrefixClass(s, S_SUFFIX, ValDomainChars)
    \/ MatchKeyword(s)
    \/ MatchUrlRegex(s)
    \/ USE_WILDCARD /\ MatchPrefixClass(s, S_WILDCARD \o <<"*", ".">>, ValDomainChars)

\* regexp_to_surge(pat)
regexp_to_surge(pat) ==
    LET p == Strip(pat)
        g1 == SubSeq(p, Len(OptSubdomain) + 1, Len(p) - 1)
        m == StartsWith(p, OptSubdomain) /\ Len(p) > Len(OptSubdomain)
             /\ p[Len(p)] = "$" /\ OneOrMore(g1, ShapeChars)
        g2 == SubSeq(p, 2, Len(p) - 1)
        m2 == StartsWith(p, <<"^">>) /\ Len(p) > 1
              /\ p[Len(p)] = "$" /\ OneOrMore(g2, ShapeChars)
        h1 == IF StartsWith(p, <<"^">>) THEN Tail(p) ELSE p
        host == IF EndsWith(h1, <<"$">>) THEN SubSeq(h1, 1, Len(h1) - 1) ELSE h1
    IN  IF m
        THEN LET base == Replace(g1, <<"\\", ".">>, <<".">>)
             IN  <<S_DOMAIN \o base>>
                 \o (IF USE_WILDCARD THEN <<S_WILDCARD \o <<"*", ".">> \o base>> ELSE <<>>)
        ELSE IF m2
        THEN <<S_DOMAIN \o Replace(g2, <<"\\", ".">>, <<".">>)>>
        ELSE <<S_REGEX \o S_SCHEME \o host \o S_PORTPATH>>

\* to_surge_lines(rule)
to_surge_lines(rule) ==
    IF rule.kind = "comment"
    THEN IF ALLOW_COMMENTS THEN <<<<"#", " ">> \o rule.value>> ELSE <<>>
    ELSE IF rule.kind = "domain" THEN <<S_SUFFIX \o rule.value>>
    ELSE IF rule.kind = "full" THEN <<S_DOMAIN \o rule.value>>
    ELSE IF rule.kind = "keyword" THEN <<S_KEYWORD \o rule.value>>
    ELSE IF rule.kind = "regexp" THEN regexp_to_surge(rule.value)
    ELSE <<>>

\* collect_attributes(rules)
collect_attributes(rs) == UNION {rs[i].attrs : i \in 1..Len(rs)}

\* sqs[1] \o sqs[2] \o ...
RECURSIVE Flat(_)
Flat(sqs) == IF sqs = <<>> THEN <<>> ELSE sqs[1] \o Flat(Tail(sqs))

\* lines 139-142: the lines of one rule, stripped, the empty ones skipped
rule_lines(r) ==
    LET ls == to_surge_lines(r)
    IN  SelectSeq([i \in 1..Len(ls) |-> Strip(ls[i])], LAMBDA l : l # <<>>)

\* write_ruleset(filepath, rules): the lines of the file, which are the
\* valid ones in the order of the two loops, and dropped, one for each other
write_ruleset(rs) ==
    LET ls == Flat([i \in 1..Len(rs) |-> rule_lines(rs[i])])
    IN  [lines   |-> SelectSeq(ls, valid_line),
         dropped |-> Cardinality({i \in 1..Len(ls) : ~valid_line(ls[i])})]

-----------------------------------------------------------------------------
(* The data directory *)

NameA == <<"a">>
NameB == <<"b">>
NameC == <<"c">>

\* the names a line of the model can refer to
Names == {NameA, NameB, NameC}

\* sorted(...) over Names
NameOrder == <<NameA, NameB, NameC>>

\* the raw lines a file of the model is made of
L_incA == IncludePrefix \o NameA
L_incB == IncludePrefix \o NameB
L_incC == IncludePrefix \o NameC
L_tagged == <<"r", "e", "g", "e", "x", "p", ":"
              , "^", "(", ".", "+", "\\", ".", ")", "?", "x", "$", " ", "@", "t">>
L_full == <<"f", "u", "l", "l", ":", "y", "\n">>
L_onlytag == <<"@", "t">>

LineSet == {L_incA, L_incB, L_incC, L_tagged, L_full, L_onlytag}

\* the total number of lines in the data directory
MaxLines == 3

SeqsUpTo(S, n) == UNION {[1..k -> S] : k \in 0..n}

\* path.exists() and path.is_file() for DATA_DIR / name
IsFile(name) == name \in DOMAIN fs /\ fs[name].kind = "file"

-----------------------------------------------------------------------------
(* resolve_list *)

EmptyMap == [n \in {} |-> <<>>]

Put(map, key, val) == [k \in DOMAIN map \cup {key} |-> IF k = key THEN val ELSE map[k]]

InSeq(x, sq) == \E i \in 1..Len(sq) : sq[i] = x

CyclicMsg == <<"W", "A", "R", "N", "I", "N", "G", ":", " ", "c", "y", "c", "l", "i", "c",
               " ", "i", "n", "c", "l", "u", "d", "e", ":", " ">>
MissingMsg == <<"W", "A", "R", "N", "I", "N", "G", ":", " ", "i", "n", "c", "l", "u", "d",
                "e", " ", "t", "a", "r", "g", "e", "t", " ", "n", "o", "t", " ", "f", "o",
                "u", "n", "d", ":", " ">>
Arrow == <<" ", "-", ">", " ">>

\* which of the four ways lines 57-64 take for a call resolve_list(name)
EntryCase(name, st, ca) ==
    IF name \in DOMAIN ca THEN "cached"
    ELSE IF InSeq(name, st) THEN "cyclic"
    ELSE IF ~IsFile(name) THEN "missing"
    ELSE "open"

\* EntryReturn with the path of the cycle joined from the stack alone
EntryReturn_StackOnly(name, st, ca) ==
    IF name \in DOMAIN ca THEN ca[name]
    ELSE IF InSeq(name, st)
         THEN <<Rule("comment", CyclicMsg \o Join(Arrow, st), {})>>
    ELSE <<Rule("comment", MissingMsg \o name, {})>>

\* what a call that does not open the file returns (lines 58, 60, 63)
EntryReturn(name, st, ca) ==
    IF name \in DOMAIN ca THEN ca[name]
    ELSE IF InSeq(name, st)
         THEN <<Rule("comment", CyclicMsg \o Join(Arrow, Append(st, name)), {})>>
    ELSE <<Rule("comment", MissingMsg \o name, {})>>

Top == frames[Len(frames)]

\* the line the innermost call is at, parsed
AtLine == pc = "resolve" /\ Top.i <= Len(fs[Top.name].lines)
\* parse_line is pure: its value on each line of the model, computed once
ParsedLine == [l \in LineSet |-> parse_line(l)]
Parsed == ParsedLine[fs[Top.name].lines[Top.i]]
AtInclude(case) ==
    /\ AtLine
    /\ Parsed.kind = "include"
    /\ EntryCase(Parsed.name, stack, cache) = case

\* Advance with more put before out
Advance_Prepend(more) ==
    [frames EXCEPT ![Len(frames)] = [@ EXCEPT !.out = more \o @, !.i = @ + 1]]

\* the innermost call with more appended to its out, at its next line
Advance(more) ==
    [frames EXCEPT ![Len(frames)] = [@ EXCEPT !.out = @ \o more, !.i = @ + 1]]

\* build_all, lines 150-152
BuildStart ==
    /\ pc = "start"
    /\ files' = SelectSeq(NameOrder, IsFile)
    /\ fi' = 1
    /\ total' = 0
    /\ total_dropped' = 0
    /\ pc' = "loop"
    /\ UNCHANGED <<USE_WILDCARD, ALLOW_COMMENTS, fs, stack, cache, frames, rules,
                   outputs, resolved, reads, stored, arg, ret>>

\* build_all, line 154: resolve_list(name) with a new stack and a new cache,
\* up to the first line of the file
CallTop ==
    /\ pc = "loop"
    /\ fi <= Len(files)
    /\ LET name == files[fi]
       IN  IF EntryCase(name, <<>>, EmptyMap) = "open"
           THEN /\ stack' = <<name>>
                /\ cache' = EmptyMap
                /\ frames' = <<[name |-> name, i |-> 1, out |-> <<>>]>>
                /\ reads' = [reads EXCEPT ![name] = @ + 1]
                /\ pc' = "resolve"
                /\ UNCHANGED <<rules, resolved>>
           ELSE /\ stack' = <<>>
                /\ cache' = EmptyMap
                /\ frames' = <<>>
                /\ rules' = EntryReturn(name, <<>>, EmptyMap)
                /\ resolved' = Put(resolved, name, rules')
                /\ pc' = "write"
                /\ UNCHANGED reads
    /\ UNCHANGED <<USE_WILDCARD, ALLOW_COMMENTS, fs, files, fi, outputs, total,
                   total_dropped, stored, arg, ret>>

\* lines 67-70: a line that parses to nothing
SkipLine ==
    /\ AtLine
    /\ Parsed = None
    /\ frames' = Advance(<<>>)
    /\ UNCHANGED <<USE_WILDCARD, ALLOW_COMMENTS, fs, pc, files, fi, stack, cache, rules,
                   outputs, total, total_dropped, resolved, reads, stored, arg, ret>>

\* lines 67-74: a line that parses to a rule
AppendRule ==
    /\ AtLine
    /\ Parsed.kind \notin {"none", "include"}
    /\ frames' = Advance(<<Parsed>>)
    /\ UNCHANGED <<USE_WILDCARD, ALLOW_COMMENTS, fs, pc, files, fi, stack, cache, rules,
                   outputs, total, total_dropped, resolved, reads, stored, arg, ret>>

\* line 72 with the callee returning at line 58: a copy of the cached list
IncludeCached ==
    /\ AtInclude("cached")
    /\ frames' = Advance(EntryReturn(Parsed.name, stack, cache))
    /\ UNCHANGED <<USE_WILDCARD, ALLOW_COMMENTS, fs, pc, files, fi, stack, cache, rules,
                   outputs, total, total_dropped, resolved, reads, stored, arg, ret>>

\* IncludeCyclic with the diagnostic stored in the cache under the name
IncludeCyclic_Cached ==
    /\ AtInclude("cyclic")
    /\ frames' = Advance(EntryReturn(Parsed.name, stack, cache))
    /\ cache' = Put(cache, Parsed.name, EntryReturn(Parsed.name, stack, cache))
    /\ UNCHANGED <<USE_WILDCARD, ALLOW_COMMENTS, fs, pc, files, fi, stack, rules,
                   outputs, total, total_dropped, resolved, reads, stored, arg, ret>>

\* line 72 with the callee returning at line 60: the name is on the stack
IncludeCyclic ==
    /\ AtInclude("cyclic")
    /\ frames' = Advance(EntryReturn(Parsed.name, stack, cache))
    /\ UNCHANGED <<USE_WILDCARD, ALLOW_COMMENTS, fs, pc, files, fi, stack, cache, rules,
                   outputs, total, total_dropped, resolved, reads, stored, arg, ret>>

\* line 72 with the callee returning at line 63: there is no such file
IncludeMissing ==
    /\ AtInclude("missing")
    /\ frames' = Advance(EntryReturn(Parsed.name, stack, cache))
    /\ UNCHANGED <<USE_WILDCARD, ALLOW_COMMENTS, fs, pc, files, fi, stack, cache, rules,
                   outputs, total, total_dropped, resolved, reads, stored, arg, ret>>

\* line 72 with the callee going on to lines 64-66
IncludeOpen ==
    /\ AtInclude("open")
    /\ stack' = Append(stack, Parsed.name)
    /\ frames' = Append(frames, [name |-> Parsed.name, i |-> 1, out |-> <<>>])
    /\ reads' = [reads EXCEPT ![Parsed.name] = @ + 1]
    /\ UNCHANGED <<USE_WILDCARD, ALLOW_COMMENTS, fs, pc, files, fi, cache, rules,
                   outputs, total, total_dropped, resolved, stored, arg, ret>>

AtEnd == pc = "resolve" /\ Top.i > Len(fs[Top.name].lines)

\* lines 75-77 of an included rule-set, and line 72 of its caller
ReturnNested ==
    /\ AtEnd
    /\ Len(frames) > 1
    /\ stack' = SubSeq(stack, 1, Len(stack) - 1)
    /\ cache' = Put(cache, Top.name, Top.out)
    /\ stored' = stored \cup {<<Top.name, Top.out>>}
    /\ frames' = [SubSeq(frames, 1, Len(frames) - 1) EXCEPT
                    ![Len(frames) - 1] = [@ EXCEPT !.out = @ \o Top.out, !.i = @ + 1]]
    /\ UNCHANGED <<USE_WILDCARD, ALLOW_COMMENTS, fs, pc, files, fi, rules, outputs,
                   total, total_dropped, resolved, reads, arg, ret>>

\* lines 75-77 of the top-level call, and line 154
ReturnTop ==
    /\ AtEnd
    /\ Len(frames) = 1
    /\ stack' = SubSeq(stack, 1, Len(stack) - 1)
    /\ cache' = Put(cache, Top.name, Top.out)
    /\ stored' = stored \cup {<<Top.name, Top.out>>}
    /\ frames' = <<>>
    /\ rules' = Top.out
    /\ resolved' = Put(resolved, Top.name, Top.out)
    /\ pc' = "write"
    /\ UNCHANGED <<USE_WILDCARD, ALLOW_COMMENTS, fs, files, fi, outputs, total,
                   total_dropped, reads, arg, ret>>

\* OUT_DIR / f"{name}.list" and OUT_DIR / f"{name}@{attr}.list"
DotList == <<".", "l", "i", "s", "t">>
MainFile(name) == name \o DotList
AttrFile(name, attr) == name \o <<"@">> \o attr \o DotList

\* Filtered with the test of line 158 left out
Filtered_All(rs, attr) == rs

\* line 158
Filtered(rs, attr) == SelectSeq(rs, LAMBDA r : attr \in r.attrs)

\* lines 157-160: the files written for the attributes in as, and the sum of
\* their dropped counts; the files have different names, so that the order
\* of sorted() does not show in the result
RECURSIVE write_attrs(_, _, _, _)
write_attrs(name, rs, as, acc) ==
    IF as = {} THEN acc
    ELSE LET attr == CHOOSE x \in as : TRUE
             filtered == Filtered(rs, attr)
             w == write_ruleset(filtered)
         IN  write_attrs(name, rs, as \ {attr},
                 IF filtered # <<>>
                 THEN [out |-> Put(acc.out, AttrFile(name, attr), w.lines),
                       dropped |-> acc.dropped + w.dropped]
                 ELSE acc)

\* build_all, lines 155-161
WriteOutputs ==
    /\ pc = "write"
    /\ LET name == files[fi]
           main == write_ruleset(rules)
           all == write_attrs(name, rules, collect_attributes(rules),
                      [out |-> Put(outputs, MainFile(name), main.lines),
                       dropped |-> total_dropped + main.dropped])
       IN  /\ outputs' = all.out
           /\ total_dropped' = all.dropped
    /\ total' = total + 1
    /\ fi' = fi + 1
    /\ pc' = "loop"
    /\ UNCHANGED <<USE_WILDCARD, ALLOW_COMMENTS, fs, files, stack, cache, frames, rules,
                   resolved, reads, stored, arg, ret>>

\* build_all, line 162
Finish ==
    /\ pc = "loop"
    /\ fi > Len(files)
    /\ pc' = "done"
    /\ UNCHANGED <<USE_WILDCARD, ALLOW_COMMENTS, fs, files, fi, stack, cache, frames,
                   rules, outputs, total, total_dropped, resolved, reads, stored, arg, ret>>

\* the data directory: a and b are files, c is a file or absent (IsFile is
\* as false of a directory as of an absent name)
MkFs(s, i, j, ckind) ==
    [n \in Names |->
        IF n = NameA THEN [kind |-> "file", lines |-> SubSeq(s, 1, i)]
        ELSE IF n = NameB THEN [kind |-> "file", lines |-> SubSeq(s, i + 1, j)]
        ELSE [kind |-> ckind, lines |-> SubSeq(s, j + 1, Len(s))]]

InitFs ==
    \E s \in SeqsUpTo(LineSet, MaxLines) :
    \E i \in 0..Len(s) : \E j \in i..Len(s) : \E ckind \in {"file", "none"} :
        /\ ckind # "file" => j = Len(s)
        /\ fs = MkFs(s, i, j, ckind)

Init ==
    /\ USE_WILDCARD \in BOOLEAN
    /\ ALLOW_COMMENTS \in BOOLEAN
    /\ InitFs
    /\ pc = "start"
    /\ files = <<>>
    /\ fi = 0
    /\ stack = <<>>
    /\ cache = EmptyMap
    /\ frames = <<>>
    /\ rules = <<>>
    /\ outputs = EmptyMap
    /\ total = 0
    /\ total_dropped = 0
    /\ resolved = EmptyMap
    /\ reads = [n \in Names |-> 0]
    /\ stored = {}
    /\ arg = <<>>
    /\ ret = <<>>

Next ==
    \/ BuildStart
    \/ CallTop
    \/ SkipLine
    \/ AppendRule
    \/ IncludeCached
    \/ IncludeCyclic
    \/ IncludeMissing
    \/ IncludeOpen
    \/ ReturnNested
    \/ ReturnTop
    \/ WriteOutputs
    \/ Finish

Spec == Init /\ [][Next]_vars

-----------------------------------------------------------------------------
(* The pure functions, each applied to the inputs of a bounded set *)

\* the variables of the build, at rest
NoBuild ==
    /\ fs = [n \in Names |-> [kind |-> "none", lines |-> <<>>]]
    /\ files = <<>>
    /\ fi = 0
    /\ stack = <<>>
    /\ cache = EmptyMap
    /\ frames = <<>>
    /\ rules = <<>>
    /\ outputs = EmptyMap
    /\ total = 0
    /\ total_dropped = 0
    /\ resolved = EmptyMap
    /\ reads = [n \in Names |-> 0]
    /\ stored = {}

\* the longest body of a raw line
MaxBody == 5

ParseAlphabet == {"a", "@", " ", "#"}

ParseHeads == {<<>>, <<BOM>>, IncludePrefix} \cup {Prefixes[k] \o <<":">> : k \in 1..Len(Prefixes)}

ParseInputs ==
    {h \o b \o e : h \in ParseHeads, b \in SeqsUpTo(ParseAlphabet, MaxBody),
                   e \in {<<>>, <<"\n">>}}

InitParse ==
    /\ USE_WILDCARD = FALSE
    /\ ALLOW_COMMENTS = FALSE
    /\ NoBuild
    /\ pc = "parse"
    /\ arg \in ParseInputs
    /\ ret = None

ParseStep ==
    /\ pc = "parse"
    /\ ret' = parse_line(arg)
    /\ pc' = "parsed"
    /\ UNCHANGED <<USE_WILDCARD, ALLOW_COMMENTS, fs, files, fi, stack, cache, frames, rules,
                   outputs, total, total_dropped, resolved, reads, stored, arg>>

SpecParse == InitParse /\ [][ParseStep]_vars

\* the longest middle part of a pattern
MaxPat == 3

PatAlphabet == {"a", ".", "\\", "-", "$", "*"}

PatInputs ==
    {h \o b \o e : h \in {<<>>, <<"^">>, OptSubdomain}, b \in SeqsUpTo(PatAlphabet, MaxPat),
                   e \in {<<>>, <<"$">>}}

InitTranslate ==
    /\ USE_WILDCARD \in BOOLEAN
    /\ ALLOW_COMMENTS = FALSE
    /\ NoBuild
    /\ pc = "translate"
    /\ arg \in PatInputs
    /\ ret = <<>>

TranslateStep ==
    /\ pc = "translate"
    /\ ret' = regexp_to_surge(arg)
    /\ pc' = "translated"
    /\ UNCHANGED <<USE_WILDCARD, ALLOW_COMMENTS, fs, files, fi, stack, cache, frames, rules,
                   outputs, total, total_dropped, resolved, reads, stored, arg>>

SpecTranslate == InitTranslate /\ [][TranslateStep]_vars

\* the longest rule sequence handed to write_ruleset
MaxRules == 2

WriteRules ==
    { Rule("domain", <<"x">>, {}),
      Rule("domain", <<"x", " ", "y">>, {<<"t">>}),
      Rule("full", <<"y">>, {}),
      Rule("keyword", <<"k">>, {}),
      Rule("keyword", <<"k", ",", "k">>, {}),
      Rule("regexp", OptSubdomain \o <<"x", "\\", ".", "y", "$">>, {}),
      Rule("regexp", <<"^", "x", "_", "$">>, {}),
      Rule("comment", MissingMsg \o NameC, {}) }

InitWrite ==
    /\ USE_WILDCARD \in BOOLEAN
    /\ ALLOW_COMMENTS \in BOOLEAN
    /\ NoBuild
    /\ pc = "emit"
    /\ arg \in SeqsUpTo(WriteRules, MaxRules)
    /\ ret = [lines |-> <<>>, dropped |-> 0]

WriteStep ==
    /\ pc = "emit"
    /\ ret' = write_ruleset(arg)
    /\ pc' = "emitted"
    /\ UNCHANGED <<USE_WILDCARD, ALLOW_COMMENTS, fs, files, fi, stack, cache, frames, rules,
                   outputs, total, total_dropped, resolved, reads, stored, arg>>

SpecWrite == InitWrite /\ [][WriteStep]_vars

\* the data directories in which a includes b and b includes a
InitCycle ==
    /\ Init
    /\ InSeq(L_incB, fs[NameA].lines)
    /\ InSeq(L_incA, fs[NameB].lines)

\* every action but WriteOutputs
Step ==
    \/ BuildStart
    \/ CallTop
    \/ SkipLine
    \/ AppendRule
    \/ IncludeCached
    \/ IncludeCyclic
    \/ IncludeMissing
    \/ IncludeOpen
    \/ ReturnNested
    \/ ReturnTop
    \/ Finish

\* The program runs alone and to its end: a step that can be taken is taken.
\* WriteOutputs can be taken exactly when pc = "write" and leaves it, so that
\* WF_vars(WriteOutputs) is []<>(pc # "write").
Fairness == WF_vars(Step) /\ []<>(pc # "write")

SpecCycle == InitCycle /\ [][Next]_vars /\ Fairness

-----------------------------------------------------------------------------
(* Claims about the build *)

Last(sq) == sq[Len(sq)]

Count(sq, P(_)) == Cardinality({i \in 1..Len(sq) : P(sq[i])})

\* sub is sq with some elements left out
RECURSIVE IsSubseq(_, _)
IsSubseq(sub, sq) ==
    IF sub = <<>> THEN TRUE
    ELSE IF sq = <<>> THEN FALSE
    ELSE IF sub[1] = sq[1] THEN IsSubseq(Tail(sub), Tail(sq))
    ELSE IsSubseq(sub, Tail(sq))

\* C2: within one build, the file of each rule-set name is opened and
\* expanded at most once; every later request is served from the cache.
C2_ResolvedOncePerBuild == \A n \in Names : reads[n] <= 1

\* C9: every sequence stored in a cache under a name n is the sequence the
\* top-level resolution of n (which starts from an empty cache) returns.
C9_CacheEntryIsColdResult ==
    pc = "done" => \A e \in stored : e[1] \in DOMAIN resolved /\ e[2] = resolved[e[1]]

\* the innermost call is at an include line whose target is on the stack, or
\* is not a regular file
C10_FailingCall ==
    /\ pc = "resolve"
    /\ Top.i <= Len(fs[Top.name].lines)
    /\ LET p == parse_line(fs[Top.name].lines[Top.i])
       IN  /\ p.kind = "include"
           /\ InSeq(p.name, stack) \/ fs[p.name].kind # "file"

\* C10: a call for a name that is on the active stack, or whose file does not
\* exist, returns exactly one comment rule with no attributes, stores nothing
\* and leaves the cache and the stack as they were; the caller splices the
\* one rule and goes on to its next line.
C10_FailingCallIsInline ==
    [][C10_FailingCall =>
        /\ cache' = cache
        /\ stack' = stack
        /\ stored' = stored
        /\ pc' = "resolve"
        /\ Len(frames') = Len(frames)
        /\ \A k \in 1..(Len(frames) - 1) : frames'[k] = frames[k]
        /\ Last(frames').name = Top.name
        /\ Last(frames').i = Top.i + 1
        /\ Len(Last(frames').out) = Len(Top.out) + 1
        /\ SubSeq(Last(frames').out, 1, Len(Top.out)) = Top.out
        /\ Last(Last(frames').out).kind = "comment"
        /\ Last(Last(frames').out).attrs = {}
    ]_vars

\* a failing call has returned into a caller that already held a rule, and
\* the caller has lines left
C10_Witness ==
    /\ pc = "resolve"
    /\ Top.i > 1
    /\ Top.i <= Len(fs[Top.name].lines)
    /\ Len(Top.out) > 1
    /\ Last(Top.out).kind = "comment"
    /\ parse_line(fs[Top.name].lines[Top.i - 1]).kind = "include"

Comments(rs) == SelectSeq(rs, LAMBDA r : r.kind = "comment")

\* "WARNING: cyclic include: a -> b -> a"
C1_Path == CyclicMsg \o NameA \o Arrow \o NameB \o Arrow \o NameA

\* C1 as stated: whatever else a and b contain and however often the include
\* lines occur, the top-level resolution of a returns a single comment rule,
\* which names the path a -> b -> a.
C1_SingleDiagnostic ==
    NameA \in DOMAIN resolved =>
        /\ Len(Comments(resolved[NameA])) = 1
        /\ Comments(resolved[NameA])[1].value = C1_Path

IncludesOf(n) ==
    {ParsedLine[fs[n].lines[i]].name :
        i \in {j \in 1..Len(fs[n].lines) : ParsedLine[fs[n].lines[j]].kind = "include"}}

IncludeCount(n, m) ==
    Cardinality({i \in 1..Len(fs[n].lines) :
                    ParsedLine[fs[n].lines[i]] = [kind |-> "include", name |-> m]})

\* a includes only b and b includes only a
C1_OnlyTheCycle ==
    /\ IncludesOf(NameA) = {NameB}
    /\ IncludesOf(NameB) = {NameA}

\* C1, amended: the build of a directory in which a includes b and b includes
\* a terminates; when the two files hold no other include line, the comment
\* rules of the top-level resolution of a all name the path a -> b -> a, and
\* there are as many as the product of the numbers of the two include lines:
\* a single one when each occurs once.
C1_CycleDiagnostics ==
    /\ <>(pc = "done")
    /\ [](C1_OnlyTheCycle /\ NameA \in DOMAIN resolved =>
            /\ \A i \in 1..Len(resolved[NameA]) :
                  resolved[NameA][i].kind = "comment" => resolved[NameA][i].value = C1_Path
            /\ Len(Comments(resolved[NameA])) =
                  IncludeCount(NameA, NameB) * IncludeCount(NameB, NameA))

\* the build is over, a and b include only each other, one of them twice
C1_Witness ==
    /\ pc = "done"
    /\ C1_OnlyTheCycle
    /\ Len(Comments(resolved[NameA])) = 2

\* C3: a comment rule of a resolved sequence puts one comment line carrying
\* its value in the output file exactly when comment output is enabled.
C3_CommentLineWritten ==
    pc = "done" =>
        \A n \in DOMAIN resolved : \A i \in 1..Len(resolved[n]) :
            resolved[n][i].kind = "comment" =>
                (ALLOW_COMMENTS <=>
                    InSeq(<<"#", " ">> \o resolved[n][i].value, outputs[MainFile(n)]))

\* the lines of the rules rs that pass the validator, in rule order
ValidLinesOf(rs) ==
    Flat([i \in 1..Len(rs) |-> SelectSeq(to_surge_lines(rs[i]), valid_line)])

C4_Tags == {<<"t">>, <<"u">>}

\* C4: for a rule-set whose files are written and for every tag, the file of
\* the tag exists exactly when a rule of the resolved sequence carries the
\* tag; its lines are the valid lines of the rules that carry it, in rule
\* order, and so a subsequence of the lines of the main file.
C4_AttrFiles ==
    \A n \in Names : MainFile(n) \in DOMAIN outputs =>
        \A t \in C4_Tags :
            LET carry == {i \in 1..Len(resolved[n]) : t \in resolved[n][i].attrs}
                tagged == SelectSeq(resolved[n], LAMBDA r : t \in r.attrs)
            IN  /\ AttrFile(n, t) \in DOMAIN outputs <=> carry # {}
                /\ carry # {} =>
                     /\ outputs[AttrFile(n, t)] = ValidLinesOf(tagged)
                     /\ IsSubseq(outputs[AttrFile(n, t)], outputs[MainFile(n)])

\* a rule-set with an include, a tagged and an untagged rule: its tag file
\* is not empty and is shorter than its main file
C4_Witness ==
    /\ pc = "done"
    /\ \E n \in Names :
          /\ AttrFile(n, <<"t">>) \in DOMAIN outputs
          /\ Len(outputs[AttrFile(n, <<"t">>)]) >= 1
          /\ Len(outputs[MainFile(n)]) > Len(outputs[AttrFile(n, <<"t">>)])
          /\ IncludesOf(n) # {}

\* the names reached from n by include lines, n among them
RECURSIVE ReachFrom(_, _)
ReachFrom(S, k) ==
    IF k = 0 THEN S
    ELSE ReachFrom(S \cup UNION {IncludesOf(m) : m \in {x \in S : IsFile(x)}}, k - 1)

Reach(n) == ReachFrom({n}, Cardinality(Names))

\* no include target reached from n is absent, and none reaches itself
C6_Applies(n) ==
    \A m \in Reach(n) :
        /\ IsFile(m)
        /\ m \notin ReachFrom(IncludesOf(m), Cardinality(Names))

\* the concatenation of what each line of n contributes
RECURSIVE C6_Flatten(_)
C6_Flatten(n) ==
    Flat([i \in 1..Len(fs[n].lines) |->
            LET p == ParsedLine[fs[n].lines[i]]
            IN  IF p.kind = "none" THEN <<>>
                ELSE IF p.kind = "include" THEN C6_Flatten(p.name)
                ELSE <<p>>])

\* C6: when the include graph under a name is acyclic and every target is a
\* file, the top-level resolution of the name returns the concatenation, in
\* line order, of one rule per rule line, the resolved sequence of the
\* target per include line, and nothing per line that parses to nothing.
C6_ResolveIsFlatten ==
    pc = "write" => (C6_Applies(files[fi]) => rules = C6_Flatten(files[fi]))

\* an acyclic rule-set whose include comes before a rule of its own, the
\* target having rules too
C6_Witness ==
    /\ pc = "done"
    /\ \E n \in DOMAIN resolved :
          /\ C6_Applies(n)
          /\ IncludesOf(n) # {}
          /\ ParsedLine[fs[n].lines[1]].kind = "include"
          /\ Len(resolved[ParsedLine[fs[n].lines[1]].name]) > 0
          /\ Len(resolved[n]) > Len(resolved[ParsedLine[fs[n].lines[1]].name])

-----------------------------------------------------------------------------
(* Claims about the pure functions *)

\* the part of a line before and after its first comma
BeforeComma(line) == SubSeq(line, 1, Find(line, ","))
AfterComma(line) == SubSeq(line, Find(line, ",") + 2, Len(line))

\* the whitelist, by the name and the value of a line
C5_Whitelisted(line) ==
    /\ Find(line, ",") >= 0
    /\ LET name == BeforeComma(line)
           value == AfterComma(line)
           isDomain(v) == v # <<>> /\ \A i \in 1..Len(v) : v[i] \in AlNum \cup {".", "-"}
       IN  \/ name = <<"D", "O", "M", "A", "I", "N">> /\ isDomain(value)
           \/ name = <<"D", "O", "M", "A", "I", "N", "-", "S", "U", "F", "F", "I", "X">>
                /\ isDomain(value)
           \/ name = <<"D", "O", "M", "A", "I", "N", "-", "K", "E", "Y", "W", "O", "R", "D">>
                /\ value # <<>>
                /\ \A i \in 1..Len(value) : value[i] \notin {",", " ", "\t", "\n", "\r"}
           \/ name = <<"U", "R", "L", "-", "R", "E", "G", "E", "X">> /\ value # <<>>
           \/ name = <<"D", "O", "M", "A", "I", "N", "-", "W", "I", "L", "D", "C", "A", "R", "D">>
                /\ USE_WILDCARD
                /\ Len(value) > 2 /\ value[1] = "*" /\ value[2] = "."
                /\ isDomain(SubSeq(value, 3, Len(value)))

\* the lines the rules rs render to, in order
RenderedLines(rs) == Flat([i \in 1..Len(rs) |-> to_surge_lines(rs[i])])

\* C5: the lines written are the rendered lines of a whitelisted shape, in
\* order, each of the others is left out and counted once, and none stops
\* the lines after it.
C5_OnlyWhitelistedWritten ==
    pc = "emitted" =>
        /\ \A i \in 1..Len(ret.lines) : C5_Whitelisted(ret.lines[i])
        /\ ret.lines = SelectSeq(RenderedLines(arg), C5_Whitelisted)
        /\ ret.dropped = Count(RenderedLines(arg), LAMBDA l : l # <<>> /\ ~C5_Whitelisted(l))

\* a keyword rule with a comma in its value, followed by a rule whose line
\* is written
C5_Witness ==
    /\ pc = "emitted"
    /\ Len(arg) = 2
    /\ arg[1].kind = "keyword"
    /\ InSeq(",", arg[1].value)
    /\ ret.dropped = 1
    /\ Len(ret.lines) = 1

\* s is made of letters, digits, dashes and escaped dots
RECURSIVE EscapedLiteral(_)
EscapedLiteral(s) ==
    IF s = <<>> THEN TRUE
    ELSE IF s[1] \in AlNum \cup {"-"} THEN EscapedLiteral(Tail(s))
    ELSE IF Len(s) >= 2 /\ s[1] = "\\" /\ s[2] = "." THEN EscapedLiteral(SubSeq(s, 3, Len(s)))
    ELSE FALSE

Unescaped(s) == Replace(s, <<"\\", ".">>, <<".">>)

\* what C7 says translate(p) is
C7_Expected(p) ==
    LET s1 == SubSeq(p, Len(OptSubdomain) + 1, Len(p) - 1)
        s2 == SubSeq(p, 2, Len(p) - 1)
        h1 == IF p # <<>> /\ p[1] = "^" THEN Tail(p) ELSE p
        h == IF h1 # <<>> /\ Last(h1) = "$" THEN SubSeq(h1, 1, Len(h1) - 1) ELSE h1
    IN  IF StartsWith(p, OptSubdomain) /\ EndsWith(p, <<"$">>) /\ s1 # <<>> /\ EscapedLiteral(s1)
        THEN IF USE_WILDCARD
             THEN <<S_DOMAIN \o Unescaped(s1), S_WILDCARD \o <<"*", ".">> \o Unescaped(s1)>>
             ELSE <<S_DOMAIN \o Unescaped(s1)>>
        ELSE IF StartsWith(p, <<"^">>) /\ EndsWith(p, <<"$">>) /\ s2 # <<>> /\ EscapedLiteral(s2)
        THEN <<S_DOMAIN \o Unescaped(s2)>>
        ELSE <<S_REGEX \o S_SCHEME \o h \o S_PORTPATH>>

\* C7: a pattern of the shape ^(.+\.)?S$ or ^L$, with S or L made of letters,
\* digits, dashes and escaped dots, translates to the exact-domain line (and
\* the wildcard line in wildcard mode); every other pattern translates to
\* the one URL-REGEX line.
C7_TranslateShapes == pc = "translated" => ret = C7_Expected(arg)

\* the line of C8, after the byte-order mark, the comment and the white
\* space around it are taken off
C8_Text(raw) == strip_inline_comment(SelectSeq(raw, LAMBDA c : c # BOM))

\* the tokens of a rule line: those of its body when it is prefixed
C8_Tokens(raw) ==
    LET text == C8_Text(raw)
        colon == Find(text, ":")
        prefixed == /\ colon >= 0
                    /\ SubSeq(text, 1, colon) \in {Prefixes[k] : k \in 1..Len(Prefixes)}
                    /\ Len(text) > colon + 1
    IN  Split(IF prefixed THEN SubSeq(text, colon + 2, Len(text)) ELSE text)

C8_IsTag(t) == t[1] = "@" /\ Len(t) > 1

\* C8: the attrs of a parsed rule are the tokens that begin with @ and are
\* longer than one character, without the @; its value is the other tokens,
\* in order, joined by single spaces; a line with no other token parses to
\* nothing; the parser makes no comment rule.
C8_TagsAndValue ==
    pc = "parsed" /\ ret.kind # "include" =>
        LET toks == C8_Tokens(arg)
            values == SelectSeq(toks, LAMBDA t : ~C8_IsTag(t))
        IN  /\ ret.kind # "comment"
            /\ values = <<>> <=> ret = None
            /\ values # <<>> =>
                 /\ ret.kind \in {"domain", "full", "keyword", "regexp"}
                 /\ ret.attrs = {Tail(toks[i]) : i \in {j \in 1..Len(toks) : C8_IsTag(toks[j])}}
                 /\ ret.value = Join(<<" ">>, values)

\* a prefixed line with a tag and a lone @, which is its value
C8_Witness ==
    /\ pc = "parsed"
    /\ ret.kind = "full"
    /\ ret.attrs = {<<"a">>}
    /\ ret.value = <<"@">>
    /\ arg[Len(arg)] = "\n"

====
